---- MODULE Spec2Model ----
(***************************************************************************)
(* error-pile: the unified error type ErrPile (src/lib.rs), its            *)
(* classification predicates, the HTTP response-to-error mapping, the      *)
(* Microsoft/Azure error bodies (src/microsoft.rs) and the heuristic JSON  *)
(* error extractor (src/value.rs).                                         *)
(*                                                                         *)
(* Every operation of the crate is a pure function of its argument, so a   *)
(* behaviour is one call on an argument drawn from the input sets and, for *)
(* a call that produces an ErrPile, one query made on that value.          *)
(***************************************************************************)
EXTENDS Integers, Sequences, FiniteSets, TLC

VARIABLES pc, call, value, ext, response, self, result, query, ret

vars == <<pc, call, value, ext, response, self, result, query, ret>>

(***************************************************************************)
(* Bounds of the input space.                                              *)
(***************************************************************************)
\* the largest number of keys of a generated flat JSON object
MaxKeys == 2
\* the largest number of object levels wrapped around a generated JSON value
MaxChain == 3

(***************************************************************************)
(* Option<T>                                                               *)
(***************************************************************************)
Some(v) == [some |-> TRUE, v |-> v]
None == [some |-> FALSE]

(***************************************************************************)
(* serde_json::Value.  An object is a map from its keys to values          *)
(* (serde_json::Map: one value per key).                                   *)
(***************************************************************************)
Null == [t |-> "null"]
Bool(b) == [t |-> "bool", b |-> b]
Num(n) == [t |-> "number", n |-> n]
Str(s) == [t |-> "string", s |-> s]
Arr(a) == [t |-> "array", a |-> a]
Obj(m) == [t |-> "object", m |-> m]

\* the one-key object {k: v}
Obj1(k, v) == Obj([x \in {k} |-> v])

\* the two-key object {k1: v1, k2: v2}
Obj2(k1, v1, k2, v2) == Obj([x \in {k1, k2} |-> IF x = k1 THEN v1 ELSE v2])

\* error_fields with "message" and "title" exchanged
error_fields_swapped ==
    << "error", "err", "title", "detail", "details", "description",
       "errorMessage", "error_message", "reason", "message" >>

\* Common error field names to check, in the order the extractor checks them.
error_fields ==
    << "error", "err", "message", "detail", "details", "description",
       "errorMessage", "error_message", "reason", "title" >>

\* Every key the generated objects use, in the byte order in which
\* serde_json's map (a BTreeMap) iterates and so serializes them.
KeyOrder ==
    << "code", "description", "detail", "details", "err", "error",
       "errorMessage", "error_message", "foo", "innererror", "message",
       "reason", "target", "title" >>

\* the keys of object value v, in serialization order
KeysOf(v) == SelectSeq(KeyOrder, LAMBDA k : k \in DOMAIN v.m)

\* n levels of serde_json's pretty indentation (two spaces each)
RECURSIVE Indent(_)
Indent(n) == IF n = 0 THEN "" ELSE "  " \o Indent(n - 1)

\* serde_json's Display / to_string of a Value: the compact serialization
RECURSIVE ToCompact(_)
ToCompact(v) ==
    CASE v.t = "null" -> "null"
      [] v.t = "bool" -> IF v.b THEN "true" ELSE "false"
      [] v.t = "number" -> ToString(v.n)
      [] v.t = "string" -> "\"" \o v.s \o "\""
      [] v.t = "array" ->
            LET RECURSIVE Items(_)
                Items(i) ==
                    IF i > Len(v.a) THEN ""
                    ELSE (IF i > 1 THEN "," ELSE "") \o ToCompact(v.a[i])
                         \o Items(i + 1)
            IN "[" \o Items(1) \o "]"
      [] v.t = "object" ->
            LET ks == KeysOf(v)
                RECURSIVE Members(_)
                Members(i) ==
                    IF i > Len(ks) THEN ""
                    ELSE (IF i > 1 THEN "," ELSE "") \o "\"" \o ks[i] \o "\":"
                         \o ToCompact(v.m[ks[i]]) \o Members(i + 1)
            IN "{" \o Members(1) \o "}"

\* serde_json::to_string_pretty of a Value written at nesting level n: one
\* member or item per line, two-space indentation, "[]" and "{}" when empty
RECURSIVE ToPrettyAt(_, _)
ToPrettyAt(v, n) ==
    CASE v.t = "array" /\ Len(v.a) > 0 ->
            LET RECURSIVE Items(_)
                Items(i) ==
                    IF i > Len(v.a) THEN ""
                    ELSE (IF i > 1 THEN ",\n" ELSE "") \o Indent(n + 1)
                         \o ToPrettyAt(v.a[i], n + 1) \o Items(i + 1)
            IN "[\n" \o Items(1) \o "\n" \o Indent(n) \o "]"
      [] v.t = "object" /\ DOMAIN v.m # {} ->
            LET ks == KeysOf(v)
                RECURSIVE Members(_)
                Members(i) ==
                    IF i > Len(ks) THEN ""
                    ELSE (IF i > 1 THEN ",\n" ELSE "") \o Indent(n + 1)
                         \o "\"" \o ks[i] \o "\": "
                         \o ToPrettyAt(v.m[ks[i]], n + 1) \o Members(i + 1)
            IN "{\n" \o Members(1) \o "\n" \o Indent(n) \o "}"
      [] OTHER -> ToCompact(v)

\* serde_json::to_string_pretty(&json_value); serializing a Value cannot fail
\* (its keys are strings and its numbers finite), so the unwrap_or_else
\* default "Unknown error format" is never taken
to_string_pretty(v) == ToPrettyAt(v, 0)

\* json_value.to_string(), the last branch of the extractor
to_string(v) == ToCompact(v)

\* ObjectFallback serializing compactly instead of pretty-printing
ObjectFallback_compact(v) == to_string(v)

\* the fallback of the object branch, once the loop over error_fields is over
ObjectFallback(v) == to_string_pretty(v)

\* NonObjectText pretty-printing what is not a string
NonObjectText_pretty(v) == IF v.t = "string" THEN v.s ELSE to_string_pretty(v)

\* the non-object branches: a string verbatim, anything else serialized
NonObjectText(v) == IF v.t = "string" THEN v.s ELSE to_string(v)

\* whether the loop leaves a nested result aside and goes on to the next field
SkipNested(nested) == nested = ""

\* SerdeValue::extract_error_from_json
RECURSIVE extract_error_from_json(_)
extract_error_from_json(v) ==
    IF v.t = "object"
    THEN LET RECURSIVE Scan(_)
             Scan(i) ==
                 IF i > Len(error_fields) THEN ObjectFallback(v)
                 ELSE LET f == error_fields[i] IN
                      IF f \notin DOMAIN v.m THEN Scan(i + 1)
                      ELSE LET error_value == v.m[f] IN
                           CASE error_value.t = "string" -> error_value.s
                             [] error_value.t = "object" ->
                                   LET nested == extract_error_from_json(error_value)
                                   IN IF ~SkipNested(nested) THEN nested
                                      ELSE Scan(i + 1)
                             [] OTHER -> Scan(i + 1)
         IN Scan(1)
    ELSE NonObjectText(v)

(***************************************************************************)
(* The JSON inputs.                                                        *)
(***************************************************************************)
AllKeys == {"error", "err", "message", "detail", "details", "description",
            "errorMessage", "error_message", "reason", "title", "foo"}

\* values that are not objects
Leaves == {Str(""), Str("disk full"), Str("resource missing"), Num(42),
           Bool(TRUE), Null, Arr(<<>>), Arr(<<Num(42), Str("bar")>>)}

\* the objects over key set K with values in V
ObjectsOver(K, V) == {Obj(m) : m \in [K -> V]}

InnerLeaves == {Str(""), Str("nested fail"), Num(42)}

\* the objects put under a candidate field of an outer object
InnerObjects ==
    UNION {ObjectsOver(K, InnerLeaves) : K \in SUBSET {"message", "foo"}}

\* n object levels, each under one candidate field, around an inner value
RECURSIVE Chains(_)
Chains(n) ==
    IF n = 0 THEN InnerLeaves \cup InnerObjects
    ELSE LET C == Chains(n - 1)
         IN C \cup {Obj1(k, c) : k \in {"error", "details"}, c \in C}


(***************************************************************************)
(* The external error values ErrPile wraps.  Each carries the text its own *)
(* Display writes; an I/O error its kind, a database error its variant     *)
(* (and, for Io, the I/O error inside), a request error its status code.   *)
(***************************************************************************)
Unit == [type |-> "()"]
Opaque(type, text) == [type |-> type, text |-> text]
IoError(kind) == [type |-> "std::io::Error", kind |-> kind, text |-> kind]
SqlxError(variant, io) ==
    [type |-> "sqlx::Error", variant |-> variant, io |-> io, text |-> variant]
ReqwestError(status, text) ==
    [type |-> "reqwest::Error", status |-> status, text |-> text]
SerdeValue(v) == [type |-> "SerdeValue", value |-> v]
JsonValue(v) == [type |-> "serde_json::Value", value |-> v]
StrSlice(s) == [type |-> "&str", text |-> s]
String(s) == [type |-> "String", text |-> s]

\* std::io::ErrorKind
IoErrorKinds ==
    {"NotFound", "PermissionDenied", "ConnectionRefused", "ConnectionReset",
     "HostUnreachable", "NetworkUnreachable", "ConnectionAborted",
     "NotConnected", "AddrInUse", "AddrNotAvailable", "NetworkDown",
     "BrokenPipe", "AlreadyExists", "WouldBlock", "NotADirectory",
     "IsADirectory", "DirectoryNotEmpty", "ReadOnlyFilesystem",
     "StaleNetworkFileHandle", "InvalidInput", "InvalidData", "TimedOut",
     "WriteZero", "StorageFull", "NotSeekable", "QuotaExceeded",
     "FileTooLarge", "ResourceBusy", "ExecutableFileBusy", "Deadlock",
     "CrossesDevices", "TooManyLinks", "InvalidFilename",
     "ArgumentListTooLong", "Interrupted", "Unsupported", "UnexpectedEof",
     "OutOfMemory", "Other", "Uncategorized"}

\* the variants of sqlx::Error
SqlxVariants ==
    {"Configuration", "InvalidArgument", "Database", "Io", "Tls", "Protocol",
     "RowNotFound", "TypeNotFound", "ColumnIndexOutOfBounds",
     "ColumnNotFound", "ColumnDecode", "Encode", "Decode", "AnyDriverError",
     "PoolTimedOut", "PoolClosed", "WorkerCrashed", "Migrate",
     "InvalidSavePointStatement", "BeginFailed"}

\* the values of an HTTP status code (reqwest::StatusCode)
StatusCodes == 100..999

\* StatusCode::is_success
is_success(status) == status >= 200 /\ status < 300

(***************************************************************************)
(* ErrPile: a variant tag and the value the variant holds.                 *)
(***************************************************************************)
Pile(tag, inner) == [tag |-> tag, inner |-> inner]

Sentinels == {"Auth", "Permission", "InUse", "NotReady"}

\* the variants whose field is marked #[source] (with #[from])
SourceTags ==
    {"DB", "Ssh", "Sftp", "Graph", "GraphErrMSg", "Json", "ExtractPdf", "Zip",
     "Decode", "Thread", "Image", "Timeframe", "IO", "Python", "Url", "Req",
     "ReqToStr", "AZ", "FromValue"}

\* the variant each #[from] conversion produces, by the type converted
FromTag ==
    [type \in {"sqlx::Error", "russh::Error", "russh_sftp::client::error::Error",
               "graph_rs_sdk::GraphFailure", "graph_rs_sdk::error::ErrorMessage",
               "serde_json::Error", "PdfiumError", "ZipError",
               "base64::DecodeError", "JoinError", "ImageError", "TimeErr",
               "std::io::Error", "PyErr", "url::ParseError", "reqwest::Error",
               "ToStrError", "AZError", "SerdeValue"} |->
        CASE type = "sqlx::Error" -> "DB"
          [] type = "russh::Error" -> "Ssh"
          [] type = "russh_sftp::client::error::Error" -> "Sftp"
          [] type = "graph_rs_sdk::GraphFailure" -> "Graph"
          [] type = "graph_rs_sdk::error::ErrorMessage" -> "GraphErrMSg"
          [] type = "serde_json::Error" -> "Json"
          [] type = "PdfiumError" -> "ExtractPdf"
          [] type = "ZipError" -> "Zip"
          [] type = "base64::DecodeError" -> "Decode"
          [] type = "JoinError" -> "Thread"
          [] type = "ImageError" -> "Image"
          [] type = "TimeErr" -> "Timeframe"
          [] type = "std::io::Error" -> "IO"
          [] type = "PyErr" -> "Python"
          [] type = "url::ParseError" -> "Url"
          [] type = "reqwest::Error" -> "Req"
          [] type = "ToStrError" -> "ReqToStr"
          [] type = "AZError" -> "AZ"
          [] type = "SerdeValue" -> "FromValue"]

\* ErrPile::custom
custom(msg) == Pile("Custom", String(msg))

\* the From conversions into ErrPile: the derived #[from] ones,
\* From<serde_json::Value> and From<&str>
From(x) ==
    CASE x.type = "serde_json::Value" -> Pile("FromValue", SerdeValue(x.value))
      [] x.type = "&str" -> custom(x.text)
      [] OTHER -> Pile(FromTag[x.type], x)

\* Display of AZErrorDetails and (through it) of AZError
AZErrorDisplay(x) == x.error.code \o " - " \o x.error.message

\* Display of a wrapped value: SerdeValue writes its JSON value, AZError
\* its details, any other value its own text
DisplayOf(x) ==
    CASE x.type \in {"SerdeValue", "serde_json::Value"} -> to_string(x.value)
      [] x.type = "AZError" -> AZErrorDisplay(x)
      [] OTHER -> x.text

\* Display of ErrPile: the #[error("...")] text of each variant
Display(e) ==
    CASE e.tag = "DB" -> "Error connecting/ storing to DB"
      [] e.tag = "Ssh" -> "An error occurred with SSH"
      [] e.tag = "Sftp" -> "An error occurred with sftp connection"
      [] e.tag = "Auth" ->
            "Invalid username or password was provided. Please try again"
      [] e.tag = "Permission" ->
            "User does not have permission to perform this action."
      [] e.tag = "InUse" ->
            "This action can't be performed as it is being currently used elsewhere"
      [] e.tag = "NotReady" ->
            "The resource is not ready yet, please try again later"
      [] e.tag = "Graph" ->
            "An error occurred while getting data using Microsoft Graph"
      [] e.tag = "GraphErrMSg" -> "Graph Error Message"
      [] e.tag = "Json" -> "Error parsing Json Data (Serde)"
      [] e.tag = "MS" -> "Request responded with an error"
      [] e.tag = "ExtractPdf" ->
            "An error occurred while parsing the PDF text (PDF_Extract)"
      [] e.tag = "Zip" -> "Error opening zip archive"
      [] e.tag = "Decode" -> "Error decoding from base64 content bytes"
      [] e.tag = "Thread" -> "A thread panicked while executing a task"
      [] e.tag = "Image" ->
            "An error occurred while performing an operation on a Image"
      [] e.tag = "Timeframe" -> "A TimeFrame error occurred"
      [] e.tag = "IO" -> "IO Err: " \o DisplayOf(e.inner)
      [] e.tag = "Python" ->
            "An error occurred on Python Side: " \o DisplayOf(e.inner)
      [] e.tag = "Url" -> "An error occurred while parsing the URL"
      [] e.tag = "Req" -> "An error occurred while sending request"
      [] e.tag = "ReqToStr" ->
            "An error occurred while converting Http Header to string"
      [] e.tag = "AZ" ->
            "Document Intelligence Services returned with an error"
      [] e.tag = "FromValue" -> DisplayOf(e.inner)
      [] e.tag = "Custom" -> DisplayOf(e.inner)

\* Error::source of ErrPile, as thiserror derives it: the #[source] field
source(e) == IF e.tag \in SourceTags THEN Some(e.inner) ELSE None

\* ErrPile::source_str
source_str(e) ==
    IF e.tag = "FromValue" THEN extract_error_from_json(e.inner.value)
    ELSE LET s == source(e) IN
         IF s.some THEN DisplayOf(s.v) ELSE Display(e)

\* ErrPile::is_encrypted
is_encrypted(e) == e.tag = "Auth"

\* ErrPile::is_not_ready
is_not_ready(e) == e.tag = "NotReady"

\* TransientStatus with 504 (Gateway Timeout) left out
TransientStatus_no504 == {408, 429, 500, 502, 503}

\* the status codes is_transient retries
TransientStatus == {408, 429, 500, 502, 503, 504}

\* TransientIoKinds with ResourceBusy left out
TransientIoKinds_noBusy ==
    {"WouldBlock", "TimedOut", "Interrupted", "ConnectionReset",
     "ConnectionAborted", "NotConnected", "ConnectionRefused", "AddrInUse",
     "Deadlock", "HostUnreachable", "NetworkDown", "NetworkUnreachable"}

\* the I/O kinds is_io_transient matches
TransientIoKinds ==
    {"WouldBlock", "TimedOut", "Interrupted", "ConnectionReset",
     "ConnectionAborted", "NotConnected", "ConnectionRefused", "AddrInUse",
     "Deadlock", "HostUnreachable", "NetworkDown", "NetworkUnreachable",
     "ResourceBusy"}

\* ErrPile::is_io_transient
is_io_transient(kind) == kind \in TransientIoKinds

\* is_db_transient with the guard on the I/O kind dropped from the Io arm
is_db_transient_anyIo(db) ==
    CASE db.variant = "Io" -> TRUE
      [] db.variant = "Database" -> TRUE
      [] db.variant = "PoolTimedOut" -> TRUE
      [] db.variant = "PoolClosed" -> TRUE
      [] OTHER -> FALSE

\* the match on the sqlx::Error inside ErrPile::DB
is_db_transient(db) ==
    CASE db.variant = "Io" /\ is_io_transient(db.io.kind) -> TRUE
      [] db.variant = "Database" -> TRUE
      [] db.variant = "PoolTimedOut" -> TRUE
      [] db.variant = "PoolClosed" -> TRUE
      [] OTHER -> FALSE

\* is_transient_rest without the NotReady step
is_transient_rest_noNotReady(e) == FALSE

\* the last two steps of is_transient: NotReady is transient, the rest is not
is_transient_rest(e) == IF e.tag = "NotReady" THEN TRUE ELSE FALSE

\* ErrPile::is_transient
is_transient(e) ==
    IF e.tag = "Req" /\ e.inner.status.some
    THEN e.inner.status.v \in TransientStatus
    ELSE IF e.tag = "IO" THEN is_io_transient(e.inner.kind)
    ELSE IF e.tag = "DB" THEN is_db_transient(e.inner)
    ELSE is_transient_rest(e)

(***************************************************************************)
(* Deserializing a JSON value as AZError (serde's derived Deserialize,     *)
(* through serde_json::from_value).  A struct is read from an object, by   *)
(* field name (unknown keys ignored, an absent Option field being None),   *)
(* or from an array holding exactly its fields in declaration order.       *)
(***************************************************************************)
Ok(v) == [ok |-> TRUE, v |-> v]
Err(e) == [ok |-> FALSE, v |-> e]
Fail == [ok |-> FALSE]

\* the value found for each of a struct's fields, or Fail when v is neither
\* an object nor an array of the struct's length
StructFields(v, names) ==
    IF v.t = "object"
    THEN Ok([i \in 1..Len(names) |->
               IF names[i] \in DOMAIN v.m THEN Some(v.m[names[i]]) ELSE None])
    ELSE IF v.t = "array" /\ Len(v.a) = Len(names)
    THEN Ok([i \in 1..Len(names) |-> Some(v.a[i])])
    ELSE Fail

\* a field of type String
de_String(o) == IF o.some /\ o.v.t = "string" THEN Ok(o.v.s) ELSE Fail

\* a field of type Option<String>
de_OptionString(o) ==
    IF ~o.some \/ o.v.t = "null" THEN Ok(None)
    ELSE IF o.v.t = "string" THEN Ok(Some(o.v.s)) ELSE Fail

RECURSIVE de_AZError(_)
RECURSIVE de_AZErrorDetails(_)
RECURSIVE de_AZErrorInner(_)

\* AZErrorInner { code, message, innererror }, all three optional
de_AZErrorInner(v) ==
    LET f == StructFields(v, <<"code", "message", "innererror">>) IN
    IF ~f.ok THEN Fail
    ELSE LET c == de_OptionString(f.v[1])
             m == de_OptionString(f.v[2])
             i == IF ~f.v[3].some \/ f.v[3].v.t = "null" THEN Ok(None)
                  ELSE LET r == de_AZErrorInner(f.v[3].v)
                       IN IF r.ok THEN Ok(Some(r.v)) ELSE Fail
         IN IF c.ok /\ m.ok /\ i.ok
            THEN Ok([code |-> c.v, message |-> m.v, innererror |-> i.v])
            ELSE Fail

\* AZErrorDetails { code, message, target, details, innererror }
de_AZErrorDetails(v) ==
    LET f == StructFields(v, <<"code", "message", "target", "details",
                               "innererror">>) IN
    IF ~f.ok THEN Fail
    ELSE LET c == de_String(f.v[1])
             m == de_String(f.v[2])
             t == de_OptionString(f.v[3])
             d == IF ~f.v[4].some \/ f.v[4].v.t = "null" THEN Ok(None)
                  ELSE IF f.v[4].v.t # "array" THEN Fail
                  ELSE LET a == f.v[4].v.a
                           r == [k \in 1..Len(a) |-> de_AZError(a[k])]
                       IN IF \A k \in 1..Len(a) : r[k].ok
                          THEN Ok(Some([k \in 1..Len(a) |-> r[k].v]))
                          ELSE Fail
             i == IF ~f.v[5].some \/ f.v[5].v.t = "null" THEN Ok(None)
                  ELSE LET r == de_AZErrorInner(f.v[5].v)
                       IN IF r.ok THEN Ok(Some(r.v)) ELSE Fail
         IN IF c.ok /\ m.ok /\ t.ok /\ d.ok /\ i.ok
            THEN Ok([code |-> c.v, message |-> m.v, target |-> t.v,
                     details |-> d.v, innererror |-> i.v])
            ELSE Fail

\* AZError { error }: serde_json::from_value::<AZError>
de_AZError(v) ==
    LET f == StructFields(v, <<"error">>) IN
    IF ~f.ok \/ ~f.v[1].some THEN Fail
    ELSE LET d == de_AZErrorDetails(f.v[1].v)
         IN IF d.ok THEN Ok([type |-> "AZError", error |-> d.v]) ELSE Fail

(***************************************************************************)
(* The response-to-error mapping.  A response is its status code, its body *)
(* (None when it cannot be read as JSON) and whether the body deserializes *)
(* as the type T the caller expects.                                       *)
(***************************************************************************)
Response(status, body, asT) == [status |-> status, body |-> body, asT |-> asT]

\* the text of the reqwest error for a body that cannot be read as JSON
DecodeErrorText == "error decoding response body"

\* the fallback arms of the category match
category_fallback(status_code) ==
    IF status_code >= 430 /\ status_code <= 499 THEN "Client Error"
    ELSE IF status_code >= 508 /\ status_code <= 599 THEN "Server Error"
    ELSE "Unknown Error"

\* the match on status_code in handle_error_response, arm by arm
error_category(status_code) ==
    IF status_code >= 100 /\ status_code <= 199 THEN "Informational"
    ELSE IF status_code >= 300 /\ status_code <= 399 THEN "Redirection"
    ELSE IF status_code = 400 THEN "Bad Request"
    ELSE IF status_code = 401 THEN "Unauthorized"
    ELSE IF status_code = 403 THEN "Forbidden"
    ELSE IF status_code = 404 THEN "Not Found"
    ELSE IF status_code = 408 THEN "Request Timeout"
    ELSE IF status_code = 409 THEN "Conflict"
    ELSE IF status_code = 410 THEN "Gone"
    ELSE IF status_code = 413 THEN "Payload Too Large"
    ELSE IF status_code = 414 THEN "URI Too Long"
    ELSE IF status_code = 415 THEN "Unsupported Media Type"
    ELSE IF status_code = 422 THEN "Unprocessable Entity"
    ELSE IF status_code = 429 THEN "Too Many Requests"
    ELSE IF status_code = 500 THEN "Internal Server Error"
    ELSE IF status_code = 501 THEN "Not Implemented"
    ELSE IF status_code = 502 THEN "Bad Gateway"
    ELSE IF status_code = 503 THEN "Service Unavailable"
    ELSE IF status_code = 504 THEN "Gateway Timeout"
    ELSE IF status_code = 507 THEN "Insufficient Storage"
    ELSE category_fallback(status_code)

\* the text of ErrPile::Custom for a body that cannot be read
unread_message(status_code) ==
    error_category(status_code) \o " (" \o ToString(status_code)
        \o "): Failed to read error response: " \o DecodeErrorText

\* the Ok(body) arm: AZError first, the raw value otherwise
body_error(body) ==
    LET az_error == de_AZError(body) IN
    IF az_error.ok THEN Pile("AZ", az_error.v)
    ELSE From(SerdeValue(body))

\* ErrPile::handle_error_response
handle_error_response(r) ==
    IF r.body.some THEN body_error(r.body.v)
    ELSE Pile("Custom", String(unread_message(r.status)))

\* the success arm of to_pile_result: self.json::<T>().await?
success_result(r) ==
    IF r.body.some /\ r.asT THEN Ok([type |-> "T", value |-> r.body.v])
    ELSE Err(From(ReqwestError(None, DecodeErrorText)))

\* ReqwestPileResExt::to_pile_result
to_pile_result(r) ==
    IF is_success(r.status) THEN success_result(r)
    ELSE Err(handle_error_response(r))

(***************************************************************************)
(* Microsoft Graph responses.                                              *)
(***************************************************************************)
MSResponseError(code, message) ==
    [type |-> "MSResponseError",
     error |-> [code |-> code, inner_error |-> Null, message |-> message]]

MSResponse(v, e) == [value |-> v, error |-> e]

\* From<MSResponse<T>> for PileResult<T>
from_ms_response(r) ==
    IF r.error.some THEN Err(Pile("MS", r.error.v))
    ELSE IF r.value.some THEN Ok(r.value.v)
    ELSE Err(Pile("Custom", String(
            "Could not parse Ok variant or the Err variant | Response: "
            \o "MSResponse { value: None, error: None }")))

(***************************************************************************)
(* The inputs of the calls.                                                *)
(***************************************************************************)
Messages == {"boom", "connection lost"}

\* the wrapped types of which only the text matters
OpaqueTypes ==
    DOMAIN FromTag \ {"sqlx::Error", "std::io::Error", "reqwest::Error",
                      "AZError", "SerdeValue"}

\* the values put under the fields of a generated Azure-style body
AzFieldValues == {Str("X"), Num(42), Null}

\* bodies that are not an object holding an object under "error"
OtherBodies ==
    {Obj1("foo", Str("bar")), Obj1("error", Str("disk full")), Obj(<<>>),
     Str("plain text"), Num(42), Null, Arr(<<>>),
     Arr(<<Arr(<<Str("X"), Str("Y"), Null, Null, Null>>)>>),
     Arr(<<Arr(<<Str("X"), Str("Y")>>)>>),
     Arr(<<Obj2("code", Str("X"), "message", Str("Y"))>>),
     Obj1("error", Arr(<<Str("X"), Str("Y"), Null, Null, Null>>)),
     Obj1("error", Arr(<<Str("X"), Num(42), Null, Null, Null>>)),
     Obj1("error", Arr(<<Str("X"), Str("Y"), Null>>))}

\* the optional parts of an Azure-style body
AzExtras ==
    {Obj1("details", Arr(<<>>)),
     Obj1("details",
          Arr(<<Obj1("error", Obj2("code", Str("D"), "message", Str("d")))>>)),
     Obj1("details", Arr(<<Obj1("error", Obj1("code", Str("D")))>>)),
     Obj1("details", Str("X")),
     Obj1("innererror", Obj(<<>>)),
     Obj1("innererror", Obj2("code", Str("I"), "innererror",
                             Obj1("message", Str("i")))),
     Obj1("innererror", Obj1("code", Num(42))),
     Obj1("innererror", Arr(<<Null, Null, Null>>)),
     Obj1("innererror", Str("X"))}

\* {"error": {"code": "X", "message": "Y", ...extra}}
AzWith(extra) ==
    Obj1("error",
         Obj([k \in {"code", "message"} \cup DOMAIN extra.m |->
                IF k = "code" THEN Str("X")
                ELSE IF k = "message" THEN Str("Y") ELSE extra.m[k]]))

\* the status codes tried with every body
SampleStatus == {200, 204, 302, 404, 405, 429, 503}

\* the JSON values wrapped directly as ErrPile::FromValue
WrappedValues == Leaves \cup InnerObjects \cup OtherBodies

(***************************************************************************)
(* Calls.  pc is "idle" before the call, "err" once a call has produced an *)
(* ErrPile (held in self), and "done" after the last step.                 *)
(***************************************************************************)
NoValue == Null
NoRet == [kind |-> "none"]
RetString(s) == [kind |-> "String", s |-> s]
RetBool(b) == [kind |-> "bool", b |-> b]
RetCause(c) == [kind |-> "source", cause |-> c]

Init ==
    /\ pc = "idle"
    /\ call = "none"
    /\ value = NoValue
    /\ ext = None
    /\ response = None
    /\ self = None
    /\ result = NoRet
    /\ query = "none"
    /\ ret = NoRet

\* value.extract_error_from_json() on the JSON value v
Extract(v) ==
    /\ value' = v
    /\ call' = "extract_error_from_json"
    /\ ret' = RetString(extract_error_from_json(v))
    /\ pc' = "done"
    /\ UNCHANGED <<ext, response, self, result, query>>

ExtractErrorFromJson ==
    /\ pc = "idle"
    /\ \/ \E v \in Leaves : Extract(v)
       \/ \E K \in SUBSET AllKeys :
            /\ Cardinality(K) <= MaxKeys
            /\ \E m \in [K -> Leaves] : Extract(Obj(m))
       \/ \E K \in SUBSET {"error", "message", "foo"} :
            \E m \in [K -> InnerLeaves \cup InnerObjects] : Extract(Obj(m))
       \/ \E v \in Chains(MaxChain) : Extract(v)

\* a variant without payload, constructed directly
Sentinel ==
    /\ pc = "idle"
    /\ \E t \in Sentinels : self' = Some(Pile(t, Unit))
    /\ call' = "variant"
    /\ pc' = "err"
    /\ UNCHANGED <<value, ext, response, result, query, ret>>

\* ErrPile::from(x)
Wrap(x) ==
    /\ ext' = Some(x)
    /\ self' = Some(From(x))
    /\ call' = "from"
    /\ pc' = "err"
    /\ UNCHANGED <<value, response, result, query, ret>>

FromExternal ==
    /\ pc = "idle"
    /\ \/ \E type \in OpaqueTypes, text \in Messages : Wrap(Opaque(type, text))
       \/ \E kind \in IoErrorKinds : Wrap(IoError(kind))
       \/ \E variant \in SqlxVariants \ {"Io"} : Wrap(SqlxError(variant, Unit))
       \/ \E kind \in IoErrorKinds : Wrap(SqlxError("Io", IoError(kind)))
       \/ \E text \in Messages : Wrap(ReqwestError(None, text))
       \/ \E status \in StatusCodes : Wrap(ReqwestError(Some(status), "status"))
       \/ \E extra \in AzExtras \cup {Obj(<<>>)} :
            LET az == de_AZError(AzWith(extra)) IN az.ok /\ Wrap(az.v)
       \/ \E v \in WrappedValues : Wrap(SerdeValue(v))
       \/ \E v \in WrappedValues : Wrap(JsonValue(v))
       \/ \E text \in Messages : Wrap(StrSlice(text))

\* ErrPile::custom(msg)
Custom ==
    /\ pc = "idle"
    /\ \E msg \in Messages \cup {""} :
         /\ ext' = Some(String(msg))
         /\ self' = Some(custom(msg))
    /\ call' = "custom"
    /\ pc' = "err"
    /\ UNCHANGED <<value, response, result, query, ret>>

\* a call that returns the PileResult r
Returned(r) ==
    /\ result' = r
    /\ self' = IF r.ok THEN None ELSE Some(r.v)
    /\ pc' = IF r.ok THEN "done" ELSE "err"

\* PileResult::from(MSResponse)
FromMSResponse ==
    /\ pc = "idle"
    /\ \E v \in {None, Some(Num(42))},
          e \in {None, Some(MSResponseError("X", "Y"))} :
         /\ ext' = Some(MSResponse(v, e))
         /\ Returned(from_ms_response(MSResponse(v, e)))
    /\ call' = "from_ms_response"
    /\ UNCHANGED <<value, response, query, ret>>

\* response.to_pile_result::<T>()
Respond(r) ==
    /\ response' = Some(r)
    /\ Returned(to_pile_result(r))
    /\ call' = "to_pile_result"
    /\ UNCHANGED <<value, ext, query, ret>>

ToPileResult ==
    /\ pc = "idle"
    /\ \/ \E status \in StatusCodes : Respond(Response(status, None, FALSE))
       \/ \E status \in StatusCodes, asT \in BOOLEAN :
            Respond(Response(status, Some(Obj1("foo", Str("bar"))), asT))
       \/ \E status \in SampleStatus, asT \in BOOLEAN :
            \/ \E v \in OtherBodies : Respond(Response(status, Some(v), asT))
            \/ \E extra \in AzExtras :
                 Respond(Response(status, Some(AzWith(extra)), asT))
            \/ \E K \in SUBSET {"code", "message", "target"} :
                 \E m \in [K -> AzFieldValues] :
                   Respond(Response(status, Some(Obj1("error", Obj(m))), asT))

\* a query q on the error held, answering r
Answer(q, r) ==
    /\ query' = q
    /\ ret' = r
    /\ pc' = "done"
    /\ UNCHANGED <<call, value, ext, response, self, result>>

IsTransient ==
    /\ pc = "err"
    /\ Answer("is_transient", RetBool(is_transient(self.v)))

IsNotReady ==
    /\ pc = "err"
    /\ Answer("is_not_ready", RetBool(is_not_ready(self.v)))

IsEncrypted ==
    /\ pc = "err"
    /\ Answer("is_encrypted", RetBool(is_encrypted(self.v)))

Source ==
    /\ pc = "err"
    /\ Answer("source", RetCause(source(self.v)))

SourceStr ==
    /\ pc = "err"
    /\ Answer("source_str", RetString(source_str(self.v)))

ToString_ ==
    /\ pc = "err"
    /\ Answer("to_string", RetString(Display(self.v)))

Next ==
    \/ ExtractErrorFromJson
    \/ Sentinel
    \/ FromExternal
    \/ Custom
    \/ FromMSResponse
    \/ ToPileResult
    \/ IsTransient
    \/ IsNotReady
    \/ IsEncrypted
    \/ Source
    \/ SourceStr
    \/ ToString_

Spec == Init /\ [][Next]_vars

(***************************************************************************)
(* Properties.                                                             *)
(***************************************************************************)
\* is_transient has answered for the error held
AnsweredTransient == pc = "done" /\ query = "is_transient"

\* extract_error_from_json has returned for value
Extracted == pc = "done" /\ call = "extract_error_from_json"

\* C1: on ErrPile::Req, is_transient is true exactly when the wrapped error
\* has a status code and the code is 408, 429, 500, 502, 503 or 504; it is
\* false for every other code and when there is no status code.
C1_ReqTransient ==
    (AnsweredTransient /\ self.v.tag = "Req") =>
        (ret.b <=> /\ self.v.inner.status.some
                   /\ self.v.inner.status.v \in {408, 429, 500, 502, 503, 504})

C1_Witness ==
    /\ AnsweredTransient
    /\ self.v.tag = "Req"
    /\ self.v.inner.status = Some(504)
    /\ ret.b

\* C2: on ErrPile::IO, is_transient is true exactly when the I/O kind is one
\* of the thirteen transient kinds.
C2_IoTransient ==
    (AnsweredTransient /\ self.v.tag = "IO") =>
        (ret.b <=> self.v.inner.kind \in
            {"WouldBlock", "TimedOut", "Interrupted", "ConnectionReset",
             "ConnectionAborted", "NotConnected", "ConnectionRefused",
             "AddrInUse", "Deadlock", "HostUnreachable", "NetworkDown",
             "NetworkUnreachable", "ResourceBusy"})

C2_Witness ==
    /\ AnsweredTransient
    /\ self.v.tag = "IO"
    /\ self.v.inner.kind = "ResourceBusy"
    /\ ret.b

\* C3: on ErrPile::DB, is_transient is true exactly when the database error
\* is an I/O error of a transient kind, the Database kind, PoolTimedOut or
\* PoolClosed; an I/O error of any other kind is not transient.
C3_DbTransient ==
    (AnsweredTransient /\ self.v.tag = "DB") =>
        (ret.b <=>
            \/ /\ self.v.inner.variant = "Io"
               /\ self.v.inner.io.kind \in
                    {"WouldBlock", "TimedOut", "Interrupted", "ConnectionReset",
                     "ConnectionAborted", "NotConnected", "ConnectionRefused",
                     "AddrInUse", "Deadlock", "HostUnreachable", "NetworkDown",
                     "NetworkUnreachable", "ResourceBusy"}
            \/ self.v.inner.variant \in {"Database", "PoolTimedOut", "PoolClosed"})

C3_Witness ==
    /\ AnsweredTransient
    /\ self.v.tag = "DB"
    /\ self.v.inner.variant = "Io"
    /\ self.v.inner.io.kind = "NotFound"
    /\ ~ret.b

\* C4: on every variant other than Req, IO and DB, is_transient is true
\* exactly for NotReady, so that is_not_ready implies is_transient.
C4_RestTransient ==
    (AnsweredTransient /\ self.v.tag \notin {"Req", "IO", "DB"}) =>
        /\ ret.b <=> self.v.tag = "NotReady"
        /\ is_not_ready(self.v) => ret.b

C4_Witness ==
    /\ AnsweredTransient
    /\ self.v.tag = "NotReady"
    /\ ret.b

\* the candidate names in the order the specification lists them
CandidateOrder ==
    << "error", "err", "message", "detail", "details", "description",
       "errorMessage", "error_message", "reason", "title" >>

\* candidate f of object v is present and yields a result: a plain string,
\* or an object whose own extraction is not empty
Yields(v, f) ==
    /\ f \in DOMAIN v.m
    /\ \/ v.m[f].t = "string"
       \/ v.m[f].t = "object" /\ extract_error_from_json(v.m[f]) # ""

\* what candidate f of object v yields
Outcome(v, f) ==
    IF v.m[f].t = "string" THEN v.m[f].s ELSE extract_error_from_json(v.m[f])

\* C5: on an object, the result is the outcome of the earliest candidate, in
\* the listed order, that is present and holds a plain string or an object
\* with a non-empty extraction; every other candidate is skipped.
C5_EarliestCandidate ==
    (Extracted /\ value.t = "object") =>
        \A i \in 1..Len(CandidateOrder) :
            (/\ Yields(value, CandidateOrder[i])
             /\ \A j \in 1..(i - 1) : ~Yields(value, CandidateOrder[j]))
            => ret.s = Outcome(value, CandidateOrder[i])

C5_Witness ==
    /\ Extracted
    /\ value = Obj2("title", Str("disk full"), "message", Str("resource missing"))
    /\ ret.s = "resource missing"

\* a candidate field of v leads to a plain string, directly or through
\* object-valued candidate fields
RECURSIVE LeadsToString(_)
LeadsToString(v) ==
    \E i \in 1..Len(CandidateOrder) :
        LET f == CandidateOrder[i] IN
        /\ f \in DOMAIN v.m
        /\ \/ v.m[f].t = "string"
           \/ v.m[f].t = "object" /\ LeadsToString(v.m[f])

C7_Total ==
    Extracted =>
        /\ ret.kind = "String"
        /\ ret.s \in STRING
        /\ value.t = "string" => ret.s = value.s
        /\ value.t \in {"number", "bool", "null", "array"} =>
              ret.s = ToCompact(value)
        /\ value = Num(42) => ret.s = "42"
        /\ value = Bool(TRUE) => ret.s = "true"
        /\ value = Null => ret.s = "null"
        /\ value = Arr(<<>>) => ret.s = "[]"
        /\ value = Arr(<<Num(42), Str("bar")>>) => ret.s = "[42,\"bar\"]"

C7_Witness ==
    /\ Extracted
    /\ value = Arr(<<Num(42), Str("bar")>>)
    /\ ret.s = "[42,\"bar\"]"

\* field k of the object members m is absent, null or a string
OptionalString(m, k) == k \notin DOMAIN m \/ m[k].t \in {"null", "string"}

\* the Azure-style inner error: an object whose code and message, when
\* given, are strings and whose innererror, when given, is of the same shape
RECURSIVE AzInnerShape(_)
AzInnerShape(v) ==
    /\ v.t = "object"
    /\ OptionalString(v.m, "code")
    /\ OptionalString(v.m, "message")
    /\ \/ "innererror" \notin DOMAIN v.m
       \/ v.m["innererror"].t = "null"
       \/ AzInnerShape(v.m["innererror"])

\* the Azure-style schema: an object with an "error" object holding string
\* code and message; target, details and innererror optional
RECURSIVE AzShape(_)
AzShape(v) ==
    /\ v.t = "object"
    /\ "error" \in DOMAIN v.m
    /\ LET e == v.m["error"] IN
       /\ e.t = "object"
       /\ "code" \in DOMAIN e.m /\ e.m["code"].t = "string"
       /\ "message" \in DOMAIN e.m /\ e.m["message"].t = "string"
       /\ OptionalString(e.m, "target")
       /\ \/ "details" \notin DOMAIN e.m
          \/ e.m["details"].t = "null"
          \/ /\ e.m["details"].t = "array"
             /\ \A k \in 1..Len(e.m["details"].a) : AzShape(e.m["details"].a[k])
       /\ \/ "innererror" \notin DOMAIN e.m
          \/ e.m["innererror"].t = "null"
          \/ AzInnerShape(e.m["innererror"])

\* to_pile_result has returned for response
Responded == call = "to_pile_result" /\ pc # "idle"

\* C8 as claimed: a non-success response never gives Ok; it gives AZ when
\* the JSON body matches the Azure-style schema, FromValue with the raw body
\* for any other JSON body, and Custom only when the body cannot be read as
\* JSON; Ok is returned only for a success status with a body of type T.
C8_Original ==
    Responded =>
        LET r == response.v IN
        /\ r.status \notin 200..299 =>
              /\ ~result.ok
              /\ (r.body.some /\ AzShape(r.body.v)) => result.v.tag = "AZ"
              /\ (r.body.some /\ ~AzShape(r.body.v)) =>
                    result.v = Pile("FromValue", SerdeValue(r.body.v))
              /\ result.v.tag = "Custom" <=> ~r.body.some
        /\ result.ok => (r.status \in 200..299 /\ r.body.some /\ r.asT)

\* no struct of the body is written as an array: neither the body, nor its
\* "error" member, nor an "innererror" below it
RECURSIVE NoArrayInner(_)
NoArrayInner(v) ==
    /\ v.t # "array"
    /\ v.t = "object" /\ "innererror" \in DOMAIN v.m =>
          NoArrayInner(v.m["innererror"])

NoArrayStruct(v) ==
    /\ v.t # "array"
    /\ v.t = "object" /\ "error" \in DOMAIN v.m =>
          /\ NoArrayInner(v.m["error"])
          /\ v.m["error"].t = "object" /\ "details" \in DOMAIN v.m["error"].m
             /\ v.m["error"].m["details"].t = "array" =>
                \A k \in 1..Len(v.m["error"].m["details"].a) :
                    /\ v.m["error"].m["details"].a[k].t # "array"
                    /\ v.m["error"].m["details"].a[k].t = "object"
                       /\ "error" \in DOMAIN v.m["error"].m["details"].a[k].m =>
                          NoArrayInner(v.m["error"].m["details"].a[k].m["error"])

\* the dispatch of C8 on the bodies none of whose structs is an array
C8_ObjectBodies ==
    (Responded /\ response.v.body.some /\ NoArrayStruct(response.v.body.v)
     /\ response.v.status \notin 200..299) =>
        /\ ~result.ok
        /\ AzShape(response.v.body.v) => result.v.tag = "AZ"
        /\ ~AzShape(response.v.body.v) =>
              result.v = Pile("FromValue", SerdeValue(response.v.body.v))

\* C9 as claimed: after every From conversion of an external error the cause
\* is present and displays as the original value does; the cause is absent
\* for Auth, Permission, InUse and NotReady; every variant that carries a
\* wrapped error value exposes it as its cause.
C9_Original ==
    (pc = "done" /\ query = "source") =>
        /\ (call = "from" /\ ext.v.type # "&str") =>
              /\ ret.cause.some
              /\ DisplayOf(ret.cause.v) = DisplayOf(ext.v)
        /\ self.v.tag \in {"Auth", "Permission", "InUse", "NotReady"} =>
              ~ret.cause.some
        /\ self.v.tag \notin {"Auth", "Permission", "InUse", "NotReady", "Custom"} =>
              ret.cause = Some(self.v.inner)

\* the range table of the status category label
ClaimedCategory(code) ==
    IF code \in 100..199 THEN "Informational"
    ELSE IF code \in 300..399 THEN "Redirection"
    ELSE IF code = 400 THEN "Bad Request"
    ELSE IF code = 401 THEN "Unauthorized"
    ELSE IF code = 403 THEN "Forbidden"
    ELSE IF code = 404 THEN "Not Found"
    ELSE IF code = 408 THEN "Request Timeout"
    ELSE IF code = 409 THEN "Conflict"
    ELSE IF code = 410 THEN "Gone"
    ELSE IF code = 413 THEN "Payload Too Large"
    ELSE IF code = 414 THEN "URI Too Long"
    ELSE IF code = 415 THEN "Unsupported Media Type"
    ELSE IF code = 422 THEN "Unprocessable Entity"
    ELSE IF code = 429 THEN "Too Many Requests"
    ELSE IF code = 500 THEN "Internal Server Error"
    ELSE IF code = 501 THEN "Not Implemented"
    ELSE IF code = 502 THEN "Bad Gateway"
    ELSE IF code = 503 THEN "Service Unavailable"
    ELSE IF code = 504 THEN "Gateway Timeout"
    ELSE IF code = 507 THEN "Insufficient Storage"
    ELSE IF code \in 400..499 THEN "Client Error"
    ELSE IF code \in 500..599 THEN "Server Error"
    ELSE "Unknown Error"

\* C10 as claimed: the label written into the Custom error of an unreadable
\* body follows the range table for every status code, with "Client Error"
\* for every unnamed 4xx code and "Server Error" for every unnamed 5xx code.
C10_Original ==
    (Responded /\ ~result.ok /\ result.v.tag = "Custom") =>
        result.v.inner.text =
            ClaimedCategory(response.v.status) \o " ("
                \o ToString(response.v.status)
                \o "): Failed to read error response: error decoding response body"

\* the label on the codes the category match covers by a named arm or by
\* one of its ranges 430..499 and 508..599
C10_CoveredCodes ==
    (Responded /\ ~result.ok /\ result.v.tag = "Custom"
     /\ response.v.status \notin (402..428) \cup {505, 506}) =>
        result.v.inner.text =
            ClaimedCategory(response.v.status) \o " ("
                \o ToString(response.v.status)
                \o "): Failed to read error response: error decoding response body"

====
